---- MODULE Spec2Model ----
(***************************************************************************)
(* A model of the opaque-union library (src/src/index.ts): the bundle that  *)
(* ofVariations generates from a name x variation schema, i.e. its          *)
(* constructors (of), guards (is), dispatch (fold) and optics (iso,         *)
(* lensFromProp), and the operations that derive a bundle from bundles      *)
(* (pick, omit, merge, omitVariations).                                     *)
(*                                                                          *)
(* JavaScript values are records [t, s, o]: t is the value's type, s the    *)
(* text of a primitive, o the own properties of an object (a function from  *)
(* property keys to values).  A schema (the `types` argument) is a sequence *)
(* of [name, table] entries in insertion order, table being the sequence of *)
(* the variation keys of that name.                                         *)
(***************************************************************************)
EXTENDS Integers, Sequences, FiniteSets, TLC

VARIABLES
  types,  \* the schema of the bundle in use
  made,   \* the call that gave the first value: [op, n, v, arg], no path
  first,  \* the first value: a constructed entity or a value from elsewhere
  count,  \* the number of calls so far, the first one included
  last,   \* the last call: [op, path, n, v, arg], arg being its input
          \* (a lens call has its property k and value y as well; a call
          \* that derives a bundle is [op, i, j, keys])
  res,    \* the result of the last call
  store,  \* the bundles generated so far, the one in use first
  heap    \* the entities allocated so far, in allocation order: an entity's
          \* identity (its reference) is its index in heap

vars == <<types, made, first, count, last, res, store, heap>>

(***************************************************************************)
(* JavaScript values                                                        *)
(***************************************************************************)
NoProps == [k \in {} |-> 0]

Str(s) == [t |-> "string", s |-> s, o |-> NoProps]
Num(s) == [t |-> "number", s |-> s, o |-> NoProps]
Bool(b) == [t |-> "boolean", s |-> IF b THEN "true" ELSE "false", o |-> NoProps]
Undefined == [t |-> "undefined", s |-> "", o |-> NoProps]
Null == [t |-> "null", s |-> "", o |-> NoProps]
Obj(props) == [t |-> "object", s |-> "", o |-> props]

\* The outcome of a call that throws (a TypeError raised by the runtime).
Throw == [t |-> "throw", s |-> "TypeError", o |-> NoProps]

IsThrow(x) == x.t = "throw"

\* typeof x
TypeOf(x) == IF x.t = "null" THEN "object" ELSE x.t

\* key in x, for an x that is an object or null (typeof x = 'object'):
\* the in operator throws a TypeError on null.
HasProp(x, key) == key \in DOMAIN x.o

\* x[key] on an object: undefined when the property is missing.
GetProp(x, key) == IF key \in DOMAIN x.o THEN x.o[key] ELSE Undefined

\* The characters of a string of the model (TLA+ strings cannot be indexed,
\* so the strings longer than one character are spelled out).
Chars(s) ==
  CASE Len(s) = 0 -> <<>>
    [] Len(s) = 1 -> <<s>>
    [] s = "one" -> <<"o", "n", "e">>
    [] s = "two" -> <<"t", "w", "o">>

\* The property key of the i-th character of a string.
IndexKey == <<"0", "1", "2">>

\* The own enumerable properties that {...x} copies: those of an object, the
\* indexed characters of a string, nothing for a number, a boolean,
\* undefined and null.
Spread(x) ==
  CASE x.t = "object" -> x.o
    [] x.t = "string" ->
         [k \in {IndexKey[i] : i \in 1..Len(Chars(x.s))} |->
            Str(Chars(x.s)[CHOOSE i \in 1..Len(Chars(x.s)) : IndexKey[i] = k])]
    [] x.t \in {"number", "boolean", "undefined", "null"} -> NoProps

\* { ...a, ...b }: the keys of both, b winning on a key of both.
Assign(a, b) ==
  [k \in (DOMAIN a) \cup (DOMAIN b) |-> IF k \in DOMAIN b THEN b[k] ELSE a[k]]

\* const { k1, k2, ...rest } = x: the rest after the keys in `taken`.
Rest(props, taken) == [k \in (DOMAIN props) \ taken |-> props[k]]

(***************************************************************************)
(* Schemas                                                                  *)
(***************************************************************************)
SeqToSet(s) == {s[i] : i \in 1..Len(s)}

\* Object.keys(types)
names(T) == [i \in 1..Len(T) |-> T[i].name]

\* The keys of every table, those of the first table first.
variations_AllTables(T) ==
  T[1].table \o SelectSeq(T[Len(T)].table,
                          LAMBDA k : k \notin SeqToSet(T[1].table))

\* Object.keys(types[names[0]])
variations(T) == T[1].table

IsName(T, k) == k \in SeqToSet(names(T))
IsVariation(T, k) == k \in SeqToSet(variations(T))

\* names.indexOf(x) > -1 and variations.includes(x), for a value x: the keys
\* are strings, so only a string value can be found.
NamesInclude(T, x) == x.t = "string" /\ IsName(T, x.s)
VariationsInclude(T, x) == x.t = "string" /\ IsVariation(T, x.s)

(***************************************************************************)
(* 4.1 Opaque representation                                                *)
(***************************************************************************)
Marker == "__OPAQUE__"

\* { __OPAQUE__: '__OPAQUE__', __OPAQUE_KEY__: name,
\*   __OPAQUE_VARIATION__: variation, value }
Opaque(name, variation, value) ==
  Obj([__OPAQUE__ |-> Str(Marker),
       __OPAQUE_KEY__ |-> name,
       __OPAQUE_VARIATION__ |-> variation,
       value |-> value])

\* The i-th argument of a call, undefined when it is not supplied.
Arg(args, i) == IF i <= Len(args) THEN args[i] ELSE Undefined

(***************************************************************************)
(* 4.3 Constructor generator                                                *)
(***************************************************************************)
\* ofsTypes[name]: defaultOf(variation, value), with its arity branch.
ofsTypes(name, args) ==
  IF Len(args) <= 1
    THEN Opaque(Str(name), Str("default"), Arg(args, 1))
    ELSE Opaque(Str(name), Arg(args, 1), Arg(args, 2))

\* ofsTypes[name][variation](value)
ofsTypesVariation(name, variation, args) ==
  Opaque(Str(name), Str(variation), Arg(args, 1))

\* ofsVariations[variation]: defaultOf(name, value)
ofsVariations(variation, args) ==
  Opaque(Arg(args, 1), Str(variation), Arg(args, 2))

\* ofsVariations[variation][name](value)
ofsVariationsName(variation, name, args) ==
  Opaque(Str(name), Str(variation), Arg(args, 1))

\* of(name, variation, value)
ofAll(args) == Opaque(Arg(args, 1), Arg(args, 2), Arg(args, 3))

\* of[k](...args) with the name-scoped constructor kept for a key that is
\* both a name and a variation.
ofMember_NameFirst(T, k, args) ==
  IF IsName(T, k) THEN ofsTypes(k, args)
  ELSE IF IsVariation(T, k) THEN ofsVariations(k, args)
  ELSE Throw

\* of[k](...args): ofAll[name] = ofsTypes[name] for every name, then
\* ofAll[variation] = ofsVariations[variation] for every variation, so a key
\* that is both resolves to the variation-scoped constructor.  Calling a
\* missing member throws.
ofMember(T, k, args) ==
  IF IsVariation(T, k) THEN ofsVariations(k, args)
  ELSE IF IsName(T, k) THEN ofsTypes(k, args)
  ELSE Throw

\* of[k1][k2](...args)
ofMemberMember(T, k1, k2, args) ==
  IF IsVariation(T, k1)
    THEN IF IsName(T, k2) THEN ofsVariationsName(k1, k2, args) ELSE Throw
  ELSE IF IsName(T, k1)
    THEN IF IsVariation(T, k2) THEN ofsTypesVariation(k1, k2, args) ELSE Throw
  ELSE Throw

(***************************************************************************)
(* 4.4 Guard generator                                                      *)
(***************************************************************************)
\* The test every guard starts with, after typeof thing === 'object':
\* '__OPAQUE__' in thing && thing.__OPAQUE__ === '__OPAQUE__' &&
\* '__OPAQUE_KEY__' in thing && '__OPAQUE_VARIATION__' in thing
HasMarkerAndTags(thing) ==
  /\ HasProp(thing, "__OPAQUE__")
  /\ thing.o["__OPAQUE__"] = Str(Marker)
  /\ HasProp(thing, "__OPAQUE_KEY__")
  /\ HasProp(thing, "__OPAQUE_VARIATION__")

\* A guard's outcome: false for a non-object, a TypeError for null (typeof
\* null is 'object' and the in operator throws on it), otherwise the outcome
\* of the guard's test of the tags.
GuardOutcome(thing, tagsOk) ==
  IF TypeOf(thing) # "object" THEN Bool(FALSE)
  ELSE IF thing.t = "null" THEN Throw
  ELSE IF ~HasMarkerAndTags(thing) THEN Bool(FALSE)
  ELSE Bool(tagsOk)

\* isTypes[name] without its test of the name tag.
isTypes_AnyName(T, name, thing) ==
  GuardOutcome(thing,
    VariationsInclude(T, GetProp(thing, "__OPAQUE_VARIATION__")))

\* isTypes[name]: defaultIs(thing)
isTypes(T, name, thing) ==
  GuardOutcome(thing,
    /\ GetProp(thing, "__OPAQUE_KEY__") = Str(name)
    /\ VariationsInclude(T, GetProp(thing, "__OPAQUE_VARIATION__")))

\* isTypes[name][variation](thing)
isTypesVariation(name, variation, thing) ==
  GuardOutcome(thing,
    /\ GetProp(thing, "__OPAQUE_KEY__") = Str(name)
    /\ GetProp(thing, "__OPAQUE_VARIATION__") = Str(variation))

\* isVariations[variation] without its test of the name tag.
isVariations_AnyName(T, variation, thing) ==
  GuardOutcome(thing, GetProp(thing, "__OPAQUE_VARIATION__") = Str(variation))

\* isVariations[variation]: defaultIs(thing)
isVariations(T, variation, thing) ==
  GuardOutcome(thing,
    /\ GetProp(thing, "__OPAQUE_VARIATION__") = Str(variation)
    /\ NamesInclude(T, GetProp(thing, "__OPAQUE_KEY__")))

\* isVariations[variation][name](thing)
isVariationsName(variation, name, thing) ==
  GuardOutcome(thing,
    /\ GetProp(thing, "__OPAQUE_KEY__") = Str(name)
    /\ GetProp(thing, "__OPAQUE_VARIATION__") = Str(variation))

\* is(thing) without its test of the variation tag.
isAll_AnyVariation(T, thing) ==
  GuardOutcome(thing, NamesInclude(T, GetProp(thing, "__OPAQUE_KEY__")))

\* is(thing)
isAll(T, thing) ==
  GuardOutcome(thing,
    /\ NamesInclude(T, GetProp(thing, "__OPAQUE_KEY__"))
    /\ VariationsInclude(T, GetProp(thing, "__OPAQUE_VARIATION__")))

\* is[k](thing): isAll[name] = isTypes[name], then
\* isAll[variation] = isVariations[variation].
isMember(T, k, thing) ==
  IF IsVariation(T, k) THEN isVariations(T, k, thing)
  ELSE IF IsName(T, k) THEN isTypes(T, k, thing)
  ELSE Throw

\* is[k1][k2](thing)
isMemberMember(T, k1, k2, thing) ==
  IF IsVariation(T, k1)
    THEN IF IsName(T, k2) THEN isVariationsName(k1, k2, thing) ELSE Throw
  ELSE IF IsName(T, k1)
    THEN IF IsVariation(T, k2) THEN isTypesVariation(k1, k2, thing) ELSE Throw
  ELSE Throw

(***************************************************************************)
(* 4.5 Dispatch (fold) generator                                            *)
(***************************************************************************)
\* The guard table a fold is created from: isTypes (keyed by the names) or
\* isVariations (keyed by the variations).
GuardKeys(T, table) == IF table = "isTypes" THEN names(T) ELSE variations(T)

GuardOf(T, table, key, s) ==
  IF table = "isTypes" THEN isTypes(T, key, s) ELSE isVariations(T, key, s)

\* funcs[key](s): the result of the handler keyed `key` applied to s, a value
\* that records which handler ran and on what.  `funcs` is the set of keys
\* of the handler map; calling a missing handler throws.
Handled(key, s) == Obj([handler |-> Str(key), arg |-> s])

CallHandler(funcs, key, s) == IF key \in funcs THEN Handled(key, s) ELSE Throw

\* The outcomes of a fold no guard of which holds: the library leaves them
\* open (a reported failure or a silent undefined).
NoMatch == {[t |-> "throw", s |-> "Error", o |-> NoProps], Undefined}

\* createFoldObject(guards)(funcs)(s): the guards are tried in key order and
\* the handler of the first one that holds is called with s.  The set of the
\* possible outcomes.
RECURSIVE FoldScan(_, _, _, _, _)
FoldScan(T, table, keys, funcs, s) ==
  IF keys = <<>> THEN NoMatch
  ELSE LET g == GuardOf(T, table, Head(keys), s)
       IN IF IsThrow(g) THEN {g}
          ELSE IF g = Bool(TRUE) THEN {CallHandler(funcs, Head(keys), s)}
          ELSE FoldScan(T, table, Tail(keys), funcs, s)

createFoldObject(T, table, funcs, s) ==
  FoldScan(T, table, GuardKeys(T, table), funcs, s)

\* fold: createFoldObject(isTypes)
foldAll(T, funcs, s) == createFoldObject(T, "isTypes", funcs, s)

\* forTypes[name].fold: createFoldObject(isVariations)
forTypesFold(T, funcs, s) == createFoldObject(T, "isVariations", funcs, s)

\* forVariations[variation].fold: createFoldObject(isTypes)
forVariationsFold(T, funcs, s) == createFoldObject(T, "isTypes", funcs, s)

\* bundle[k].fold(funcs)(s): the bundle is { ..., ...forTypes,
\* ...forVariations }, so a key that is both a name and a variation resolves
\* to the variation-scoped member.
bundleMemberFold(T, k, funcs, s) ==
  IF IsVariation(T, k) THEN forVariationsFold(T, funcs, s)
  ELSE IF IsName(T, k) THEN forTypesFold(T, funcs, s)
  ELSE {Throw}

(***************************************************************************)
(* 4.6 Optics generator: isomorphisms                                       *)
(***************************************************************************)
\* x.key: a TypeError on undefined and null.
PropOf(x, key) ==
  IF x.t \in {"undefined", "null"} THEN Throw ELSE GetProp(x, key)

\* The get of every scoped iso: opaque => opaque.value
scopedGet(opaque) == PropOf(opaque, "value")

\* iso.get with the tags written after the payload's fields.
isoGet_TagsLast(opaque) ==
  IF opaque.t \in {"undefined", "null"} THEN Throw
  ELSE Obj(Assign(Spread(GetProp(opaque, "value")),
                  [_tag |-> GetProp(opaque, "__OPAQUE_KEY__"),
                   _variation |-> GetProp(opaque, "__OPAQUE_VARIATION__")]))

\* iso.get: opaque => ({ _tag: opaque.__OPAQUE_KEY__,
\*                       _variation: opaque.__OPAQUE_VARIATION__,
\*                       ...opaque.value })
isoGet(opaque) ==
  IF opaque.t \in {"undefined", "null"} THEN Throw
  ELSE Obj(Assign([_tag |-> GetProp(opaque, "__OPAQUE_KEY__"),
                   _variation |-> GetProp(opaque, "__OPAQUE_VARIATION__")],
                  Spread(GetProp(opaque, "value"))))

\* iso.reverseGet: ({ _tag, _variation, ...value }) =>
\*   ({ __OPAQUE__, __OPAQUE_KEY__: _tag, __OPAQUE_VARIATION__: _variation,
\*      value })
isoReverseGet(tagged) ==
  IF tagged.t \in {"undefined", "null"} THEN Throw
  ELSE Opaque(GetProp(tagged, "_tag"), GetProp(tagged, "_variation"),
              Obj(Rest(Spread(tagged), {"_tag", "_variation"})))

\* bundle[k1][k2].iso.get(s): forTypes[name][variation] and
\* forVariations[variation][name] share the same get.
bundleMemberMemberIsoGet(T, k1, k2, s) ==
  IF IsVariation(T, k1)
    THEN IF IsName(T, k2) THEN scopedGet(s) ELSE Throw
  ELSE IF IsName(T, k1)
    THEN IF IsVariation(T, k2) THEN scopedGet(s) ELSE Throw
  ELSE Throw

\* bundle[k1][k2].iso.reverseGet(a): ofsTypes[name][variation] for
\* forTypes[name][variation], ofsVariations[variation][name] for
\* forVariations[variation][name].
bundleMemberMemberIsoReverseGet(T, k1, k2, a) ==
  IF IsVariation(T, k1)
    THEN IF IsName(T, k2) THEN ofsVariationsName(k1, k2, <<a>>) ELSE Throw
  ELSE IF IsName(T, k1)
    THEN IF IsVariation(T, k2) THEN ofsTypesVariation(k1, k2, <<a>>) ELSE Throw
  ELSE Throw

\* forTypes[name].iso.reverseGet: ofsTypes[name].default, which is missing
\* (calling it throws) in a bundle without a variation called default.
forTypesIsoReverseGet(T, name, a) ==
  IF IsVariation(T, "default") THEN ofsTypesVariation(name, "default", <<a>>)
  ELSE Throw

\* forVariations[variation].iso.get: opaque => ({ _tag: opaque.__OPAQUE_KEY__,
\*   _variation: variation, ...opaque.value })
forVariationsIsoGet(variation, opaque) ==
  IF opaque.t \in {"undefined", "null"} THEN Throw
  ELSE Obj(Assign([_tag |-> GetProp(opaque, "__OPAQUE_KEY__"),
                   _variation |-> Str(variation)],
                  Spread(GetProp(opaque, "value"))))

\* forVariations[variation].iso.reverseGet: ({ _tag, _variation, ...value })
\*   => ({ __OPAQUE__, __OPAQUE_KEY__: _tag, __OPAQUE_VARIATION__: variation,
\*         value })
forVariationsIsoReverseGet(variation, tagged) ==
  IF tagged.t \in {"undefined", "null"} THEN Throw
  ELSE Opaque(GetProp(tagged, "_tag"), Str(variation),
              Obj(Rest(Spread(tagged), {"_tag", "_variation"})))

\* bundle[k].iso.get(s): the bundle is { ..., ...forTypes, ...forVariations }.
bundleMemberIsoGet(T, k, s) ==
  IF IsVariation(T, k) THEN forVariationsIsoGet(k, s)
  ELSE IF IsName(T, k) THEN scopedGet(s)
  ELSE Throw

\* bundle[k].iso.reverseGet(a)
bundleMemberIsoReverseGet(T, k, a) ==
  IF IsVariation(T, k) THEN forVariationsIsoReverseGet(k, a)
  ELSE IF IsName(T, k) THEN forTypesIsoReverseGet(T, k, a)
  ELSE Throw

(***************************************************************************)
(* 4.6 Optics generator: property lenses                                    *)
(***************************************************************************)
\* Lens.fromProp()(prop).get: s => s[prop]
fromPropGet(prop, s) == PropOf(s, prop)

\* Lens.fromProp()(prop).set: a => s => ({ ...s, [prop]: a })
fromPropSet(prop, a, s) ==
  IF s.t \in {"undefined", "null"} THEN Throw
  ELSE Obj(Assign(Spread(s), [k \in {prop} |-> a]))

\* The isos a lens is composed from, by access path: the global iso, the
\* iso of bundle[k] and the iso of bundle[k1][k2].
LensIsoGet(T, path, n, v, s) ==
  CASE path = "lensFromProp" -> isoGet(s)
    [] path = "bundle[n][v].lensFromProp" -> bundleMemberMemberIsoGet(T, n, v, s)
    [] path = "bundle[v][n].lensFromProp" -> bundleMemberMemberIsoGet(T, v, n, s)
    [] path = "bundle[v].lensFromProp" -> bundleMemberIsoGet(T, v, s)
    [] path = "bundle[n].lensFromProp" -> bundleMemberIsoGet(T, n, s)

LensIsoReverseGet(T, path, n, v, a) ==
  CASE path = "lensFromProp" -> isoReverseGet(a)
    [] path = "bundle[n][v].lensFromProp" ->
         bundleMemberMemberIsoReverseGet(T, n, v, a)
    [] path = "bundle[v][n].lensFromProp" ->
         bundleMemberMemberIsoReverseGet(T, v, n, a)
    [] path = "bundle[v].lensFromProp" -> bundleMemberIsoReverseGet(T, v, a)
    [] path = "bundle[n].lensFromProp" -> bundleMemberIsoReverseGet(T, n, a)

\* iso.composeLens(lens).get: s => lens.get(iso.get(s))
composeLensGet(T, path, n, v, prop, s) ==
  LET a == LensIsoGet(T, path, n, v, s)
  IN IF IsThrow(a) THEN a ELSE fromPropGet(prop, a)

\* iso.composeLens(lens).set: b => s => iso.reverseGet(lens.set(b)(iso.get(s)))
composeLensSet(T, path, n, v, prop, b, s) ==
  LET a == LensIsoGet(T, path, n, v, s)
  IN IF IsThrow(a) THEN a
     ELSE LET a2 == fromPropSet(prop, b, a)
          IN IF IsThrow(a2) THEN a2 ELSE LensIsoReverseGet(T, path, n, v, a2)

(***************************************************************************)
(* Union.of                                                                 *)
(***************************************************************************)
\* of(types): realTypes[name] = { default: types[name] } for every key, then
\* ofVariations(realTypes).
of(keys) == [i \in 1..Len(keys) |-> [name |-> keys[i], table |-> <<"default">>]]

\* A schema literal handed to ofVariations: the same table for every name.
Rect(ns, vs) == [i \in 1..Len(ns) |-> [name |-> ns[i], table |-> vs]]

(***************************************************************************)
(* 4.7 Algebra                                                              *)
(***************************************************************************)
\* ofVariations(types): the generated bundle, which holds types; with no
\* key in types, names[0] is undefined and Object.keys(types[names[0]])
\* throws a TypeError.
ofVariations(T) ==
  IF Len(T) = 0 THEN Throw ELSE [t |-> "bundle", types |-> T]

\* list.indexOf(key) > -1
Includes(list, key) == key \in SeqToSet(list)

\* omit(union, omittedKeys)
omit(T, omittedKeys) ==
  LET Kept(e) == ~Includes(omittedKeys, e.name)
  IN ofVariations(SelectSeq(T, Kept))

\* pick(union, onlyKeys)
pick(T, onlyKeys) ==
  LET Kept(e) == Includes(onlyKeys, e.name)
  IN ofVariations(SelectSeq(T, Kept))

\* The entry of name n in types.
EntryOf(T, n) == T[CHOOSE i \in 1..Len(T) : T[i].name = n]

\* { ...types1, ...types2 }: the keys of types1 in their order, with the
\* value of types2 for a key of both, then the other keys of types2.
SpreadTypes(T1, T2) ==
  LET New(e) == ~IsName(T1, e.name)
  IN [i \in 1..Len(T1) |->
        IF IsName(T2, T1[i].name) THEN EntryOf(T2, T1[i].name) ELSE T1[i]]
     \o SelectSeq(T2, New)

\* merge(union1, union2) with union1's table kept for a name of both.
merge_FirstWins(T1, T2) == ofVariations(SpreadTypes(T2, T1))

\* merge(union1, union2)
merge(T1, T2) == ofVariations(SpreadTypes(T1, T2))

\* omitVariations(union, omittedVariations) filtering the table of the first
\* name only.
omitVariations_FirstNameOnly(T, omittedVariations) ==
  LET Kept(v) == ~Includes(omittedVariations, v)
  IN ofVariations([i \in 1..Len(T) |->
       IF i = 1 THEN [name |-> T[i].name,
                      table |-> SelectSeq(variations(T), Kept)]
       ELSE T[i]])

\* omitVariations(union, omittedVariations): for every name, the table of
\* the variations (the keys of the first name's table) that are not omitted.
omitVariations(T, omittedVariations) ==
  LET Kept(v) == ~Includes(omittedVariations, v)
  IN ofVariations([i \in 1..Len(T) |->
       [name |-> T[i].name, table |-> SelectSeq(variations(T), Kept)]])

(***************************************************************************)
(* The inputs of the model                                                  *)
(***************************************************************************)
\* The longest chain of values: a first value and MaxSteps - 1 calls on it.
MaxSteps == 3

\* The schemas bundles are generated from: a default-variation union, a
\* names x variations union, one with a key that is both a name and a
\* variation, and one whose tables differ.
Schemas ==
  { of(<<"One", "Two">>),
    Rect(<<"One", "Two">>, <<"var1", "var2">>),
    Rect(<<"One", "Two">>, <<"One", "var1">>),
    <<[name |-> "One", table |-> <<"var1", "var2">>],
      [name |-> "Two", table |-> <<"var1", "tototo">>]>>,
    of(<<"One", "default">>) }

\* Payloads: plain objects, objects with a _tag or a _variation field of
\* their own, and primitives.
Payloads ==
  { Obj([value |-> Str("one")]),
    Obj([value |-> Str("two"), note |-> Str("x")]),
    Obj([_tag |-> Str("Two"), value |-> Str("one")]),
    Obj([_variation |-> Str("var2"), value |-> Str("one")]),
    Num("2"),
    Str("a") }

TagNames == {"One", "Two", "tototo"}
TagVariations == {"var1", "default", "One", "tototo"}

\* Tagged values: payload fields with a _tag and a _variation.
TaggedValues ==
  { Obj([_tag |-> Str(n), _variation |-> Str(v), value |-> Str("one")]) :
      n \in TagNames, v \in TagVariations }

\* Values no constructor of the bundle in use returned: primitives, null,
\* objects without the marker or with part of the fields, and entities with
\* arbitrary tags.
Things ==
  { Num("2"), Str("a"), Undefined, Null, Obj(NoProps),
    Obj([__OPAQUE__ |-> Str(Marker)]),
    Obj([__OPAQUE__ |-> Str(Marker), __OPAQUE_KEY__ |-> Str("One")]),
    Obj([__OPAQUE__ |-> Str(Marker), __OPAQUE_KEY__ |-> Str("tototo"),
         __OPAQUE_VARIATION__ |-> Str("default")]),
    Obj([__OPAQUE__ |-> Str("other"), __OPAQUE_KEY__ |-> Str("One"),
         __OPAQUE_VARIATION__ |-> Str("var1"), value |-> Num("2")]),
    Obj([__OPAQUE_KEY__ |-> Str("One"), __OPAQUE_VARIATION__ |-> Str("var1"),
         value |-> Num("2")]),
    Opaque(Num("2"), Str("var1"), Num("2")),
    Opaque(Str("One"), Num("2"), Num("2")) }
  \cup { Opaque(Str(n), Str(v), Obj([value |-> Str("one")])) :
           n \in TagNames, v \in TagVariations }
  \cup TaggedValues
  \cup Payloads

\* The longest sequence of operations that derive or generate a bundle.
MaxOps == 2

\* The key lists given to pick and omit.
KeyLists ==
  { <<>>, <<"One">>, <<"Two", "One">>, <<"tototo">>, <<"Two", "tototo">> }

\* The variation lists given to omitVariations.
VariationLists ==
  { <<>>, <<"var2">>, <<"var1", "var2">>, <<"default">>, <<"var1", "tototo">> }

\* The schemas of the bundles generated to be merged with the others.
MergeSchemas ==
  { of(<<"Three">>), Rect(<<"Two", "Three">>, <<"var1">>) }

OfPaths ==
  {"of(n,v,p)", "of[n](v,p)", "of[n][v](p)", "of[v](n,p)", "of[v][n](p)",
   "of[n](p)", "of[n]()"}

\* The payloads given through an access path: none to a call without
\* arguments.
PayloadsOf(path) == IF path = "of[n]()" THEN {Undefined} ELSE Payloads

IsPaths == {"is", "is[n]", "is[v]", "is[n][v]", "is[v][n]"}

FoldPaths == {"fold", "bundle[n].fold", "bundle[v].fold"}

IsoPaths == {"iso", "bundle[n][v].iso", "bundle[v][n].iso"}

\* The isos of the optics scenarios: the global one and the ones of the
\* sub-bundles bundle[n] and bundle[v].
OpticsIsoPaths == {"iso", "bundle[n].iso", "bundle[v].iso"}

LensPaths ==
  {"lensFromProp", "bundle[n][v].lensFromProp", "bundle[v][n].lensFromProp",
   "bundle[v].lensFromProp", "bundle[n].lensFromProp"}

\* The properties lenses are built from and the values they set.
LensProps == {"value", "_tag"}
LensValues == {Str("two"), Num("2")}

(***************************************************************************)
(* The calls of the generated API, by access path                           *)
(***************************************************************************)
OfCall(T, path, n, v, p) ==
  CASE path = "of(n,v,p)" -> ofAll(<<Str(n), Str(v), p>>)
    [] path = "of[n](v,p)" -> ofMember(T, n, <<Str(v), p>>)
    [] path = "of[n][v](p)" -> ofMemberMember(T, n, v, <<p>>)
    [] path = "of[v](n,p)" -> ofMember(T, v, <<Str(n), p>>)
    [] path = "of[v][n](p)" -> ofMemberMember(T, v, n, <<p>>)
    [] path = "of[n](p)" -> ofMember(T, n, <<p>>)
    [] path = "of[n]()" -> ofMember(T, n, <<>>)

IsCall(T, path, n, v, thing) ==
  CASE path = "is" -> isAll(T, thing)
    [] path = "is[n]" -> isMember(T, n, thing)
    [] path = "is[v]" -> isMember(T, v, thing)
    [] path = "is[n][v]" -> isMemberMember(T, n, v, thing)
    [] path = "is[v][n]" -> isMemberMember(T, v, n, thing)

\* The handler map a fold is given: one handler per name for the global and
\* the variation-scoped fold, one per variation for the name-scoped fold.
FoldFuncs(T, path) ==
  IF path = "bundle[n].fold" THEN SeqToSet(variations(T))
  ELSE SeqToSet(names(T))

FoldCall(T, path, n, v, s) ==
  CASE path = "fold" -> foldAll(T, FoldFuncs(T, path), s)
    [] path = "bundle[n].fold" -> bundleMemberFold(T, n, FoldFuncs(T, path), s)
    [] path = "bundle[v].fold" -> bundleMemberFold(T, v, FoldFuncs(T, path), s)

IsoGetCall(T, path, n, v, s) ==
  CASE path = "iso" -> isoGet(s)
    [] path = "bundle[n][v].iso" -> bundleMemberMemberIsoGet(T, n, v, s)
    [] path = "bundle[v][n].iso" -> bundleMemberMemberIsoGet(T, v, n, s)
    [] path = "bundle[n].iso" -> bundleMemberIsoGet(T, n, s)
    [] path = "bundle[v].iso" -> bundleMemberIsoGet(T, v, s)

IsoReverseGetCall(T, path, n, v, a) ==
  CASE path = "iso" -> isoReverseGet(a)
    [] path = "bundle[n][v].iso" -> bundleMemberMemberIsoReverseGet(T, n, v, a)
    [] path = "bundle[v][n].iso" -> bundleMemberMemberIsoReverseGet(T, v, n, a)
    [] path = "bundle[n].iso" -> bundleMemberIsoReverseGet(T, n, a)
    [] path = "bundle[v].iso" -> bundleMemberIsoReverseGet(T, v, a)

(***************************************************************************)
(* The state machine                                                        *)
(***************************************************************************)
Names == SeqToSet(names(types))
Variations == SeqToSet(variations(types))

Call(op, path, n, v, arg) ==
  [op |-> op, path |-> path, n |-> n, v |-> v, arg |-> arg]

NoCall == Call("", "", "", "", Undefined)

\* A further call takes the last result as its input: not after a guard or a
\* fold (their result is the end of a chain) and not after a throw.
CanStep ==
  /\ count >= 1
  /\ count < MaxSteps
  /\ last.op \notin {"is", "fold"}
  /\ ~IsThrow(res)

\* The names and the variations a call through `path` is given: none when
\* the path has no such argument.
NamesOf(path) == IF path \in {"is", "is[v]", "fold", "bundle[v].fold", "iso",
                              "bundle[v].iso", "lensFromProp",
                              "bundle[v].lensFromProp"}
                   THEN {""} ELSE Names
VariationsOf(path) == IF path \in {"is", "is[n]", "fold", "bundle[n].fold",
                                   "iso", "of[n](p)", "of[n]()",
                                   "bundle[n].iso",
                                   "lensFromProp", "bundle[n].lensFromProp"}
                        THEN {""} ELSE Variations

Init ==
  /\ types \in Schemas
  /\ made = NoCall
  /\ first = Undefined
  /\ count = 0
  /\ last = NoCall
  /\ res = Undefined
  /\ store = <<ofVariations(types)>>
  /\ heap = <<>>

\* e = of... (n, v, p) through one of the access paths.
Of(path, n, v, p) ==
  /\ count = 0
  /\ made' = Call("of", "", n, v, p)
  /\ first' = OfCall(types, path, n, v, p)
  /\ count' = 1
  /\ last' = Call("of", path, n, v, p)
  /\ res' = first'
  /\ UNCHANGED <<types, store, heap>>

\* A value that comes from elsewhere.
Input(x) ==
  /\ count = 0
  /\ made' = Call("input", "", "", "", x)
  /\ first' = x
  /\ count' = 1
  /\ last' = made'
  /\ res' = x
  /\ UNCHANGED <<types, store, heap>>

\* A call op(path, n, v) on the last result, with result r.
Step(op, path, n, v, r) ==
  /\ CanStep
  /\ count' = count + 1
  /\ last' = Call(op, path, n, v, res)
  /\ res' = r
  /\ UNCHANGED <<types, made, first, store, heap>>

Is(path, n, v) == Step("is", path, n, v, IsCall(types, path, n, v, res))

Fold(path, n, v) ==
  \E r \in FoldCall(types, path, n, v, res) : Step("fold", path, n, v, r)

IsoGet(path, n, v) ==
  Step("iso.get", path, n, v, IsoGetCall(types, path, n, v, res))

IsoReverseGet(path, n, v) ==
  Step("iso.reverseGet", path, n, v, IsoReverseGetCall(types, path, n, v, res))

Next ==
  \/ \E path \in OfPaths :
       \E n \in NamesOf(path), v \in VariationsOf(path),
          p \in PayloadsOf(path) : Of(path, n, v, p)
  \/ \E x \in Things : Input(x)
  \/ \E path \in IsPaths :
       \E n \in NamesOf(path), v \in VariationsOf(path) : Is(path, n, v)
  \/ \E path \in FoldPaths :
       \E n \in NamesOf(path), v \in VariationsOf(path) : Fold(path, n, v)
  \/ \E path \in IsoPaths :
       \E n \in NamesOf(path), v \in VariationsOf(path) : IsoGet(path, n, v)
  \/ \E path \in IsoPaths :
       \E n \in NamesOf(path), v \in VariationsOf(path) :
         IsoReverseGet(path, n, v)

Spec == Init /\ [][Next]_vars

(***************************************************************************)
(* The optics scenarios: an entity is constructed, then taken through an   *)
(* iso (get, then reverseGet) or through a lens (get, or set and then get   *)
(* or set again with the same lens); a payload or a tagged value from       *)
(* elsewhere is given to a reverseGet, whose result is given to a get.      *)
(***************************************************************************)
LensCall(op, path, n, v, k, y, arg) ==
  [op |-> op, path |-> path, n |-> n, v |-> v, k |-> k, y |-> y, arg |-> arg]

\* The lens of (path, n, v, k) is the one the last call was made with.
SameLens(path, n, v, k) ==
  last.path = path /\ last.n = n /\ last.v = v /\ last.k = k

\* A lens call on the last result, an entity: the result of a constructor
\* or of a set, a set being followed by calls of the same lens.
LensStep(op, path, n, v, k, y, r) ==
  /\ CanStep
  /\ last.op \in {"of", "lens.set"}
  /\ last.op = "lens.set" => SameLens(path, n, v, k)
  /\ count' = count + 1
  /\ last' = LensCall(op, path, n, v, k, y, res)
  /\ res' = r
  /\ UNCHANGED <<types, made, first, store, heap>>

\* lens.get(s)
LensGet(path, n, v, k) ==
  LensStep("lens.get", path, n, v, k, Undefined,
           composeLensGet(types, path, n, v, k, res))

\* lens.set(y)(s)
LensSet(path, n, v, k, y) ==
  LensStep("lens.set", path, n, v, k, y,
           composeLensSet(types, path, n, v, k, y, res))

OpticsNext ==
  \/ \E path \in OfPaths :
       \E n \in NamesOf(path), v \in VariationsOf(path),
          p \in PayloadsOf(path) : Of(path, n, v, p)
  \/ \E x \in Payloads \cup TaggedValues : Input(x)
  \/ \E path \in OpticsIsoPaths :
       \E n \in NamesOf(path), v \in VariationsOf(path) :
         last.op \in {"of", "iso.reverseGet"} /\ IsoGet(path, n, v)
  \/ \E path \in OpticsIsoPaths :
       \E n \in NamesOf(path), v \in VariationsOf(path) :
         last.op \in {"input", "iso.get"} /\ IsoReverseGet(path, n, v)
  \/ \E path \in LensPaths, k \in LensProps :
       \E n \in NamesOf(path), v \in VariationsOf(path) : LensGet(path, n, v, k)
  \/ \E path \in LensPaths, k \in LensProps, y \in LensValues :
       \E n \in NamesOf(path), v \in VariationsOf(path) :
         LensSet(path, n, v, k, y)

OpticsSpec == Init /\ [][OpticsNext]_vars

(***************************************************************************)
(* Properties                                                               *)
(***************************************************************************)
\* The entity the constructors are specified to return for (n, v, p).
Entity(n, v, p) == Opaque(Str(n), Str(v), p)

\* The first value is the entity of(n, v, p) of a name and a variation of
\* the bundle.
FirstIsEntity ==
  /\ made.op = "of"
  /\ made.n \in Names
  /\ made.v \in Variations
  /\ first = Entity(made.n, made.v, made.arg)

FiveForms ==
  {"of(n,v,p)", "of[n](v,p)", "of[n][v](p)", "of[v](n,p)", "of[v][n](p)"}

ScopedIso == {"bundle[n][v].iso", "bundle[v][n].iso"}

\* C1: for every Name n, Variation v and payload p, each of the five
\* constructor forms returns exactly the record {marker, name n, variation v,
\* payload p}, so all five results are equal.
C1_FiveFormsSameEntity ==
  (count = 1 /\ last.op = "of" /\ last.path \in FiveForms)
    => res = Entity(last.n, last.v, last.arg)

\* What C2 expects of a guard applied to e = of(n, v, p).
C2_Expected ==
  CASE last.path = "is" -> TRUE
    [] last.path = "is[n]" -> last.n = made.n
    [] last.path = "is[v]" -> last.v = made.v
    [] last.path \in {"is[n][v]", "is[v][n]"} ->
         last.n = made.n /\ last.v = made.v

\* C2: for e = of(n, v, p), is, is[n], is[v], is[n][v] and is[v][n] hold of
\* e, and is[n2], is[v2], is[n2][v2] are false for every other name,
\* variation or pair.
C2_GuardsOfConstructed ==
  (count = 2 /\ last.op = "is" /\ FirstIsEntity) => res = Bool(C2_Expected)

\* A value that is no entity: a primitive, null, or an object without the
\* marker.
NonEntity(x) == x.t # "object" \/ ~HasProp(x, "__OPAQUE__")

\* C3: every guard is total: it never throws, and it returns false for a
\* number, a string, undefined, null and an object without the marker.
C3_GuardsTotal ==
  last.op = "is" =>
    /\ ~IsThrow(res)
    /\ NonEntity(last.arg) => res = Bool(FALSE)

\* x is an object carrying the marker, a name tag and a variation tag.
Marked(x) ==
  /\ x.t = "object"
  /\ {"__OPAQUE__", "__OPAQUE_KEY__", "__OPAQUE_VARIATION__"} \subseteq DOMAIN x.o
  /\ x.o["__OPAQUE__"] = Str(Marker)

KnownName(x) == x.o["__OPAQUE_KEY__"] \in {Str(n) : n \in Names}
KnownVariation(x) == x.o["__OPAQUE_VARIATION__"] \in {Str(v) : v \in Variations}

\* C4: is(x) is true iff x is an object with the marker '__OPAQUE__', a name
\* tag in Names and a variation tag in Variations; a marker-carrying object
\* with an unknown name or an unknown variation is rejected with false.
C4_IsAllIffMember ==
  (last.op = "is" /\ last.path = "is") =>
    /\ res = Bool(TRUE) <=>
         (Marked(last.arg) /\ KnownName(last.arg) /\ KnownVariation(last.arg))
    /\ (Marked(last.arg) /\ ~(KnownName(last.arg) /\ KnownVariation(last.arg)))
         => res = Bool(FALSE)

\* is has rejected an entity of a name of the bundle whose variation the
\* bundle does not have.
C4_Witness ==
  /\ last.op = "is" /\ last.path = "is"
  /\ Marked(last.arg) /\ KnownName(last.arg) /\ ~KnownVariation(last.arg)
  /\ res = Bool(FALSE)

\* C5: for every Name n, Variation v and payload p, whatever its fields,
\* iso.reverseGet(iso.get(of(n, v, p))) = of(n, v, p).
C5_IsoRoundTrip ==
  (/\ count = 3 /\ last.op = "iso.reverseGet" /\ last.path = "iso"
   /\ FirstIsEntity /\ last.arg = isoGet(first))
    => res = first

\* y is a well-formed Tagged Value of the bundle.
WellFormedTagged(y) ==
  /\ y.t = "object"
  /\ {"_tag", "_variation"} \subseteq DOMAIN y.o
  /\ y.o["_tag"] \in {Str(n) : n \in Names}
  /\ y.o["_variation"] \in {Str(v) : v \in Variations}

\* C6: iso.get(iso.reverseGet(y)) = y for every well-formed Tagged Value y,
\* and iso.get(e) of an entity e = of(n, v, p) is p's fields plus _tag = n
\* and _variation = v, without the marker.
C6_IsoGetOfReverseGet ==
  /\ (/\ count = 3 /\ last.op = "iso.get" /\ last.path = "iso"
      /\ made.op = "input" /\ WellFormedTagged(first)
      /\ last.arg = isoReverseGet(first))
       => res = first
  /\ (/\ count = 2 /\ last.op = "iso.get" /\ last.path = "iso"
      /\ FirstIsEntity)
       => /\ res.t = "object"
          /\ DOMAIN res.o = {"_tag", "_variation"} \cup DOMAIN Spread(made.arg)
          /\ res.o["_tag"] = Str(made.n)
          /\ res.o["_variation"] = Str(made.v)
          /\ \A k \in DOMAIN Spread(made.arg) \ {"_tag", "_variation"} :
               res.o[k] = Spread(made.arg)[k]

\* C7: the scoped isos bundle[n][v].iso and bundle[v][n].iso work on the
\* bare payload: get(of(n, v, p)) = p and reverseGet(p) = of(n, v, p), and
\* so reverseGet(get(of(n, v, p))) = of(n, v, p) and get(reverseGet(p)) = p.
C7_ScopedIso ==
  /\ (/\ count = 2 /\ last.op = "iso.get" /\ last.path \in ScopedIso
      /\ FirstIsEntity /\ last.n = made.n /\ last.v = made.v)
       => res = made.arg
  /\ (/\ count = 2 /\ last.op = "iso.reverseGet" /\ last.path \in ScopedIso
      /\ made.op = "input" /\ first \in Payloads)
       => res = Entity(last.n, last.v, first)
  /\ (/\ count = 3 /\ last.op = "iso.reverseGet" /\ last.path \in ScopedIso
      /\ FirstIsEntity /\ last.n = made.n /\ last.v = made.v
      /\ last.arg = made.arg)
       => res = first
  /\ (/\ count = 3 /\ last.op = "iso.get" /\ last.path \in ScopedIso
      /\ made.op = "input" /\ first \in Payloads
      /\ last.arg = Entity(last.n, last.v, first))
       => res = first

\* C8: for e = of(n, v, p) and a handler map with one handler per Name, the
\* global fold calls the handler keyed n on e and returns its result,
\* whatever v is.
C8_FoldAllDispatchesOnName ==
  (count = 2 /\ last.op = "fold" /\ last.path = "fold" /\ FirstIsEntity)
    => res = Handled(made.n, first)

\* The global fold has run the handler of a name that is not the first key,
\* on an entity of a variation that is not the first one.
C8_Witness ==
  /\ count = 2 /\ last.op = "fold" /\ last.path = "fold" /\ FirstIsEntity
  /\ made.n # names(types)[1]
  /\ made.v # variations(types)[1]
  /\ res = Handled(made.n, first)

\* C9: for e = of(n, v, p), bundle[n].fold with one handler per Variation
\* returns the result of the handler keyed v, and bundle[v].fold with one
\* handler per Name returns the result of the handler keyed n.
C9_ScopedFolds ==
  /\ (/\ count = 2 /\ last.op = "fold" /\ last.path = "bundle[n].fold"
      /\ FirstIsEntity /\ last.n = made.n)
       => res = Handled(made.v, first)
  /\ (/\ count = 2 /\ last.op = "fold" /\ last.path = "bundle[v].fold"
      /\ FirstIsEntity /\ last.v = made.v)
       => res = Handled(made.n, first)

\* No key's guard holds of the value the global fold was applied to.
NoGuardHolds(x) == \A n \in Names : isTypes(types, n, x) = Bool(FALSE)

\* C10: the global fold applied to a value no guard holds of ends in a
\* reported failure: no handler's result and no silent default is returned.
\* (What the fold then does is createFoldObject's choice, see NoMatch: the
\* guards decide only that no handler is called.)
C10_NoMatchIsReported ==
  (last.op = "fold" /\ last.path = "fold" /\ NoGuardHolds(last.arg))
    => IsThrow(res)

\* The part of C10 the guards decide: the global fold returns a handler's
\* result only for a value some key's guard holds of.
C10_HandlerOnlyOnMatch ==
  (last.op = "fold" /\ last.path = "fold" /\ NoGuardHolds(last.arg))
    => res \in NoMatch

(***************************************************************************)
(* The algebra: bundles are generated, and derived from the bundles         *)
(* generated so far, by pick, omit, merge and omitVariations.               *)
(***************************************************************************)
AlgebraCall(op, i, j, keys) == [op |-> op, i |-> i, j |-> j, keys |-> keys]

\* An operation returns a bundle, kept in the store after the ones it was
\* derived from, or throws.
Returned(bundles, out) ==
  IF IsThrow(out) THEN bundles ELSE Append(bundles, out)

AlgebraStep(op, i, j, keys, out, bundles) ==
  /\ count < MaxOps
  /\ count' = count + 1
  /\ last' = AlgebraCall(op, i, j, keys)
  /\ res' = out
  /\ store' = bundles
  /\ UNCHANGED <<types, made, first, heap>>

\* Union.of(...) or Union.ofVariations(...) of a further schema.
Generate(T) ==
  AlgebraStep("ofVariations", 0, 0, <<>>, ofVariations(T),
              Returned(store, ofVariations(T)))

\* Union.pick(store[i], keys)
Pick(i, keys) ==
  AlgebraStep("pick", i, 0, keys, pick(store[i].types, keys),
              Returned(store, pick(store[i].types, keys)))

\* Union.omit(store[i], keys)
Omit(i, keys) ==
  AlgebraStep("omit", i, 0, keys, omit(store[i].types, keys),
              Returned(store, omit(store[i].types, keys)))

\* Union.merge(store[i], store[j]) assigning union2's types to union1's.
Merge_Assign(i, j) ==
  AlgebraStep("merge", i, j, <<>>, merge(store[i].types, store[j].types),
              Returned([store EXCEPT ![i] = merge(store[i].types, store[j].types)],
                       merge(store[i].types, store[j].types)))

\* Union.merge(store[i], store[j])
Merge(i, j) ==
  AlgebraStep("merge", i, j, <<>>, merge(store[i].types, store[j].types),
              Returned(store, merge(store[i].types, store[j].types)))

\* Union.omitVariations(store[i], keys)
OmitVariations(i, keys) ==
  AlgebraStep("omitVariations", i, 0, keys,
              omitVariations(store[i].types, keys),
              Returned(store, omitVariations(store[i].types, keys)))

AlgebraNext ==
  \/ \E T \in MergeSchemas : Generate(T)
  \/ \E i \in 1..Len(store), keys \in KeyLists : Pick(i, keys)
  \/ \E i \in 1..Len(store), keys \in KeyLists : Omit(i, keys)
  \/ \E i \in 1..Len(store), j \in 1..Len(store) : Merge(i, j)
  \/ \E i \in 1..Len(store), keys \in VariationLists : OmitVariations(i, keys)

AlgebraSpec == Init /\ [][AlgebraNext]_vars

(***************************************************************************)
(* Guards across bundles: bundles are derived from the bundle in use, an    *)
(* entity is built by one of the bundles, and a guard of every bundle is    *)
(* applied to it.                                                           *)
(***************************************************************************)
BuiltCall(i, n, v, p) ==
  [op |-> "of", path |-> "", n |-> n, v |-> v, arg |-> p, by |-> i]

\* The payload of the entities handed from bundle to bundle.
CrossPayload == Obj([value |-> Str("one")])

\* e = store[i].of... (n, v, p), through one of the five forms.
Build(i, path, n, v, p) ==
  /\ made.op = ""
  /\ made' = BuiltCall(i, n, v, p)
  /\ first' = OfCall(store[i].types, path, n, v, p)
  /\ last' = made'
  /\ res' = first'
  /\ UNCHANGED <<types, count, store, heap>>

\* The guard of `path` of every bundle, in the order of the store, on e.
Guards(path, n, v) ==
  /\ last.op = "of"
  /\ ~IsThrow(first)
  /\ last' = Call("is", path, n, v, first)
  /\ res' = [j \in 1..Len(store) |-> IsCall(store[j].types, path, n, v, first)]
  /\ UNCHANGED <<types, made, first, count, store, heap>>

\* The names and the variations of the bundles of the store.
StoreNames == UNION {SeqToSet(names(store[j].types)) : j \in 1..Len(store)}
StoreVariations ==
  UNION {SeqToSet(variations(store[j].types)) : j \in 1..Len(store)}

CrossNext ==
  \/ \E keys \in VariationLists : made.op = "" /\ OmitVariations(1, keys)
  \/ \E keys \in KeyLists : made.op = "" /\ Pick(1, keys)
  \/ \E i \in 1..Len(store), path \in FiveForms :
       \E n \in SeqToSet(names(store[i].types)),
          v \in SeqToSet(variations(store[i].types)) :
         Build(i, path, n, v, CrossPayload)
  \/ \E path \in IsPaths :
       \E n \in IF NamesOf(path) = {""} THEN {""} ELSE StoreNames,
          v \in IF VariationsOf(path) = {""} THEN {""} ELSE StoreVariations :
         Guards(path, n, v)

CrossSpec == Init /\ [][CrossNext]_vars

(***************************************************************************)
(* Entities as objects with an identity: a constructor call allocates an    *)
(* entity, and a transform (the set or the modify of a lens, the modify of  *)
(* an iso) is given a reference to an allocated entity and returns a        *)
(* reference.  No function of index.ts assigns to a property of an object   *)
(* it is given: every result is an object literal, a new object.            *)
(***************************************************************************)
\* The reference returned by a call that throws.
NoRef == 0

\* The payloads of the entities that are transformed.
HeapPayloads == {Obj([value |-> Str("one")]), Str("one")}

\* The functions given to modify.
Modifiers == {"x => x", "x => 'two'", "x => ({ value: 'two' })"}

\* f(x)
Apply(f, x) ==
  CASE f = "x => x" -> x
    [] f = "x => 'two'" -> Str("two")
    [] f = "x => ({ value: 'two' })" -> Obj([value |-> Str("two")])

\* f(x) === x: the same primitive, or the object itself.
ReturnsItsArgument(f, x) ==
  \/ f = "x => x"
  \/ x.t \notin {"object", "throw"} /\ Apply(f, x) = x

HeapCall(op, path, n, v, k, y, a, ref) ==
  [op |-> op, path |-> path, n |-> n, v |-> v, k |-> k, y |-> y,
   arg |-> a, ref |-> ref]

\* The reference of the object literal that evaluates to r.
Fresh(r) == IF IsThrow(r) THEN NoRef ELSE Len(heap) + 1

\* e = of(n, v, p): the object literal of the constructor.
Allocate(n, v, p) ==
  /\ count = 0
  /\ heap' = Append(heap, OfCall(types, "of(n,v,p)", n, v, p))
  /\ made' = Call("of", "", n, v, p)
  /\ first' = heap'[1]
  /\ count' = 1
  /\ last' = HeapCall("of", "of(n,v,p)", n, v, "", p, NoRef, 1)
  /\ res' = first'
  /\ UNCHANGED <<types, store>>

\* A transform of the entity of reference a, with result r of reference
\* ref: a new object when ref is the next free reference.
Transform(op, path, n, v, k, y, a, r, ref) ==
  /\ CanStep
  /\ count > 0
  /\ count' = count + 1
  /\ last' = HeapCall(op, path, n, v, k, y, a, ref)
  /\ res' = r
  /\ heap' = IF ref = Len(heap) + 1 THEN Append(heap, r) ELSE heap
  /\ UNCHANGED <<types, made, first, store>>

\* lens.set(y)(e): iso.reverseGet(lens.set(y)(iso.get(e))), the entity
\* literal of the reverseGet.
HeapLensSet(a, path, n, v, k, y) ==
  LET r == composeLensSet(types, path, n, v, k, y, heap[a])
  IN Transform("lens.set", path, n, v, k, y, a, r, Fresh(r))

\* iso.modify(f)(e): iso.reverseGet(f(iso.get(e))), the entity literal of
\* the reverseGet.
HeapIsoModify(a, path, n, v, f) ==
  LET t == IsoGetCall(types, path, n, v, heap[a])
      r == IF IsThrow(t) THEN t
           ELSE IsoReverseGetCall(types, path, n, v, Apply(f, t))
  IN Transform("iso.modify", path, n, v, "", Str(f), a, r, Fresh(r))

\* lens.modify(f)(e): lens.set(f(lens.get(e)))(e) when f changes the value.
\* When f returns the value it was given, whether the result is e itself
\* or the entity literal of a set is decided inside the lens class of
\* monocle-ts: both outcomes are kept.
HeapLensModify(a, path, n, v, k, f) ==
  LET o == composeLensGet(types, path, n, v, k, heap[a])
      r == IF IsThrow(o) THEN o
           ELSE composeLensSet(types, path, n, v, k, Apply(f, o), heap[a])
  IN \/ Transform("lens.modify", path, n, v, k, Str(f), a, r, Fresh(r))
     \/ /\ CanStep
        /\ ~IsThrow(r)
        /\ ReturnsItsArgument(f, o)
        /\ Transform("lens.modify", path, n, v, k, Str(f), a, heap[a], a)

HeapIsoPaths == IsoPaths \cup OpticsIsoPaths

HeapNext ==
  \/ \E n \in Names, v \in Variations, p \in HeapPayloads : Allocate(n, v, p)
  \/ \E path \in LensPaths, k \in LensProps, y \in LensValues :
       \E n \in NamesOf(path), v \in VariationsOf(path) :
         HeapLensSet(Len(heap), path, n, v, k, y)
  \/ \E path \in HeapIsoPaths, f \in Modifiers :
       \E n \in NamesOf(path), v \in VariationsOf(path) :
         HeapIsoModify(Len(heap), path, n, v, f)
  \/ \E path \in LensPaths, k \in LensProps, f \in Modifiers :
       \E n \in NamesOf(path), v \in VariationsOf(path) :
         HeapLensModify(Len(heap), path, n, v, k, f)

HeapSpec == Init /\ [][HeapNext]_vars

(***************************************************************************)
(* Properties of the lenses                                                 *)
(***************************************************************************)
\* The lens of the last call is one reachable for the entity of(n, v, p):
\* the global lens, the lenses of bundle[n][v], bundle[v][n] and bundle[v]
\* and, in a default-variation bundle, the lens of bundle[n].
LensOfFirst ==
  CASE last.path = "lensFromProp" -> TRUE
    [] last.path \in {"bundle[n][v].lensFromProp", "bundle[v][n].lensFromProp"} ->
         last.n = made.n /\ last.v = made.v
    [] last.path = "bundle[v].lensFromProp" -> last.v = made.v
    [] last.path = "bundle[n].lensFromProp" ->
         last.n = made.n /\ Variations = {"default"}

\* The payload of the first value has the property the last call's lens is
\* built from.
PayloadHasProp == made.arg.t = "object" /\ last.k \in DOMAIN made.arg.o

\* C11: for every Name n, Variation v, payload and property k of the payload
\* with value x, every property lens reachable for the entity of(n, v,
\* payload) returns x from get.
C11_LensGet ==
  (/\ count = 2 /\ last.op = "lens.get" /\ FirstIsEntity
   /\ LensOfFirst /\ PayloadHasProp)
    => res = made.arg.o[last.k]

\* C12: for e = of(n, v, payload), a property k of the payload and a value
\* y, e2 = lensFromProp(k).set(y)(e) has the name and the variation of e,
\* every payload property other than k has in e2 the value it has in e, and
\* lensFromProp(k).get(e2) = y.
C12_LensSetGet ==
  /\ (/\ count = 2 /\ last.op = "lens.set" /\ last.path = "lensFromProp"
      /\ FirstIsEntity /\ PayloadHasProp)
       => /\ Marked(res)
          /\ res.o["__OPAQUE_KEY__"] = Str(made.n)
          /\ res.o["__OPAQUE_VARIATION__"] = Str(made.v)
          /\ \A k2 \in DOMAIN made.arg.o \ {last.k} :
               GetProp(GetProp(res, "value"), k2) = made.arg.o[k2]
  /\ (/\ count = 3 /\ last.op = "lens.get" /\ last.path = "lensFromProp"
      /\ FirstIsEntity /\ PayloadHasProp)
       => \A y \in LensValues :
            last.arg = composeLensSet(types, last.path, "", "", last.k, y, first)
              => res = y

\* x is an entity of the bundle: its name is in Names, its variation in
\* Variations, and is accepts it.
Accepted(x) ==
  /\ Marked(x) /\ KnownName(x) /\ KnownVariation(x)
  /\ isAll(types, x) = Bool(TRUE)

\* C19: every entity produced by a generated function of a bundle, given
\* names and variations of the bundle and an arbitrary payload (the five
\* constructor forms, iso.reverseGet of iso.get of such an entity, a lens
\* set of such an entity), has a name in Names and a variation in
\* Variations, so the bundle's is accepts it.
C19_ProducedEntitiesAccepted ==
  /\ (count = 1 /\ last.op = "of" /\ last.path \in FiveForms)
       => Accepted(res)
  /\ (/\ count = 3 /\ last.op = "iso.reverseGet" /\ last.path = "iso"
      /\ FirstIsEntity /\ last.arg = isoGet(first))
       => Accepted(res)
  /\ (/\ count = 2 /\ last.op = "lens.set" /\ FirstIsEntity
      /\ PayloadHasProp /\ ~IsThrow(res))
       => Accepted(res)

\* The bundle in use was built by Union.of: every name has the one
\* variation default.
BuiltByOf == types = of(names(types))

DefaultForms ==
  {"of[n](v,p)", "of[n][v](p)", "of(n,v,p)", "of[v][n](p)"}

\* C20: a bundle built by Union.of(schema) has the schema's keys as Names
\* and exactly {default} as Variations; in it of[n](p) takes p as the
\* payload and returns the same entity as of[n]('default', p),
\* of[n].default(p), of(n, 'default', p) and of.default[n](p); and
\* bundle[n].iso satisfies get(of[n](p)) = p and reverseGet(p) = of[n](p).
C20_DefaultBundle ==
  BuiltByOf =>
    /\ Variations = {"default"}
    /\ (count = 1 /\ last.op = "of" /\ last.path = "of[n](p)")
         => res = Entity(last.n, "default", last.arg)
    /\ (count = 1 /\ last.op = "of" /\ last.path \in DefaultForms)
         => res = ofMember(types, last.n, <<last.arg>>)
    /\ (/\ count = 2 /\ last.op = "iso.get" /\ last.path = "bundle[n].iso"
        /\ made.op = "of" /\ last.n = made.n
        /\ first = ofMember(types, made.n, <<made.arg>>))
         => res = made.arg
    /\ (/\ count = 2 /\ last.op = "iso.reverseGet"
        /\ last.path = "bundle[n].iso" /\ made.op = "input")
         => res = ofMember(types, last.n, <<first>>)

(***************************************************************************)
(* Properties of the algebra                                                *)
(***************************************************************************)
\* The types of the bundle the last operation was applied to.
Source == store[last.i].types

\* The last operation returned a bundle.
ReturnedBundle == res.t = "bundle"

NamesIn(T) == SeqToSet(names(T))

\* The place of name n in types.
Position(T, n) == CHOOSE i \in 1..Len(T) : T[i].name = n

\* The names of R come in the order they have in T, without a repetition.
SameOrder(R, T) ==
  \A a, b \in 1..Len(R) :
    a < b => Position(T, R[a].name) < Position(T, R[b].name)

\* Every name of R has in R the table it has in T.
SameTables(R, T) ==
  \A a \in 1..Len(R) : R[a].table = EntryOf(T, R[a].name).table

\* C13: pick(bundle, keys).types contains exactly the Names of bundle.types
\* that occur in keys, in the order they have in bundle.types, each with the
\* table it has in bundle.types; keys that are no Names are ignored.
C13_PickTypes ==
  last.op = "pick" =>
    /\ ReturnedBundle
    /\ NamesIn(res.types) = NamesIn(Source) \cap SeqToSet(last.keys)
    /\ SameOrder(res.types, Source)
    /\ SameTables(res.types, Source)

\* C14: omit(bundle, keys).types contains exactly the Names of bundle.types
\* that do not occur in keys, in the order they have in bundle.types, each
\* with the table it has in bundle.types; and for any key list,
\* pick(bundle, keys) and omit(bundle, keys) partition the Names of bundle.
C14_OmitTypes ==
  last.op = "omit" =>
    /\ ReturnedBundle
    /\ NamesIn(res.types) = NamesIn(Source) \ SeqToSet(last.keys)
    /\ SameOrder(res.types, Source)
    /\ SameTables(res.types, Source)
    /\ LET picked == pick(Source, last.keys)
       IN /\ picked.t = "bundle"
          /\ NamesIn(picked.types) \cap NamesIn(res.types) = {}
          /\ NamesIn(picked.types) \cup NamesIn(res.types) = NamesIn(Source)

\* The types of the second bundle given to merge.
Source2 == store[last.j].types

\* The names of T2 that T1 does not have, in the order they have in T2.
NewNames(T1, T2) ==
  LET New(n) == ~IsName(T1, n)
  IN SelectSeq(names(T2), New)

\* C15: merge(b1, b2).types has as keys the Names of b1, then the Names of
\* b2 that b1 does not have; a Name of both has b2's table; and the merged
\* bundle's constructors and guards cover every Name of the union: each
\* has its constructor and its guard, and is accepts its entities.
C15_MergeTypes ==
  last.op = "merge" =>
    /\ ReturnedBundle
    /\ names(res.types) = names(Source) \o NewNames(Source, Source2)
    /\ \A n \in NamesIn(res.types) :
         EntryOf(res.types, n).table =
           IF IsName(Source2, n) THEN EntryOf(Source2, n).table
           ELSE EntryOf(Source, n).table
    /\ \A n \in NamesIn(Source) \cup NamesIn(Source2) :
       \A v \in SeqToSet(variations(res.types)), p \in Payloads :
         /\ ~IsThrow(ofMember(res.types, n, <<Str(v), p>>))
         /\ ~IsThrow(isMember(res.types, n, Entity(n, v, p)))
         /\ isAll(res.types, ofAll(<<Str(n), Str(v), p>>)) = Bool(TRUE)

\* Two bundles with a Name in common, with different tables, and a Name
\* each of its own have been merged.
C15_Witness ==
  /\ last.op = "merge" /\ ReturnedBundle
  /\ \E n \in NamesIn(Source) \cap NamesIn(Source2) :
       EntryOf(Source, n).table # EntryOf(Source2, n).table
  /\ NamesIn(Source) \ NamesIn(Source2) # {}
  /\ NamesIn(Source2) \ NamesIn(Source) # {}

\* C16: omitVariations(bundle, vs).types has the Names of bundle.types, and
\* every Name's table contains exactly the bundle's Variations that are not
\* in vs.
C16_OmitVariationsTypes ==
  last.op = "omitVariations" =>
    /\ ReturnedBundle
    /\ names(res.types) = names(Source)
    /\ \A a \in 1..Len(res.types) :
         /\ SeqToSet(res.types[a].table) =
              SeqToSet(variations(Source)) \ SeqToSet(last.keys)
         /\ \A x, y \in 1..Len(res.types[a].table) :
              x < y => res.types[a].table[x] # res.types[a].table[y]

\* omitVariations has taken one Variation out of the tables of a bundle of
\* several Names and several Variations, and left another.
C16_Witness ==
  /\ last.op = "omitVariations" /\ ReturnedBundle
  /\ Len(Source) > 1
  /\ SeqToSet(last.keys) \cap SeqToSet(variations(Source)) # {}
  /\ Len(variations(res.types)) > 0
  /\ Len(variations(res.types)) < Len(variations(Source))

\* The values the constructors and the guards of the bundles are compared
\* on by C17.
ProbeKeys == {"One", "Two", "Three", "var1", "var2", "default"}

\* C17: pick, omit, merge and omitVariations leave their input bundles
\* untouched: every bundle that existed before an operation has after it
\* the same types (its Names and every Name's Variation keys), the same
\* Names and Variations index sets, and constructors and guards with the
\* same results.
C17_InputsUntouched ==
  [][\A i \in 1..Len(store) :
       /\ i <= Len(store')
       /\ store'[i].types = store[i].types
       /\ names(store'[i].types) = names(store[i].types)
       /\ variations(store'[i].types) = variations(store[i].types)
       /\ \A k \in ProbeKeys, v \in ProbeKeys :
            /\ ofMember(store'[i].types, k, <<Str(v), Num("2")>>)
                 = ofMember(store[i].types, k, <<Str(v), Num("2")>>)
            /\ isMember(store'[i].types, k, Entity(k, v, Num("2")))
                 = isMember(store[i].types, k, Entity(k, v, Num("2")))
            /\ isAll(store'[i].types, Entity(k, v, Num("2")))
                 = isAll(store[i].types, Entity(k, v, Num("2")))]_vars

\* A bundle derived from the bundle in use has been merged with it, and the
\* result differs from both.
C17_Witness ==
  /\ last.op = "merge" /\ ReturnedBundle
  /\ Len(store) = 3
  /\ store[1] # store[2]
  /\ store[3] # store[1] /\ store[3] # store[2]

\* C18: for every bundle and every key list, pick, omit, merge and
\* omitVariations complete and return a new bundle, the calls that leave no
\* Name or no Variation included.
C18_OperationsComplete ==
  last.op \in {"pick", "omit", "merge", "omitVariations"} => ReturnedBundle

(***************************************************************************)
(* Properties of the guards across bundles                                  *)
(***************************************************************************)
\* The types of the bundle the others are derived from.
TypesA == store[1].types

\* e's name is in the Names of T and e's variation in its Variations.
InIndexSets(T, e) ==
  /\ NamesInclude(T, GetProp(e, "__OPAQUE_KEY__"))
  /\ VariationsInclude(T, GetProp(e, "__OPAQUE_VARIATION__"))

\* The first value is the entity of(n, v, p) of a Name n and a Variation v
\* of the bundle that built it.
BuiltEntity == made.op = "of" /\ first = Entity(made.n, made.v, made.arg)

\* The lists V1 and V2 split the Variations of T: every Variation is in
\* one of them and none is in both.
Splits(T, V1, V2) ==
  /\ SeqToSet(variations(T)) \subseteq SeqToSet(V1) \cup SeqToSet(V2)
  /\ SeqToSet(variations(T)) \cap SeqToSet(V1) \cap SeqToSet(V2) = {}

C21_WitnessPick ==
  /\ last.op = "is" /\ last.path = "is[v]" /\ BuiltEntity /\ made.by = 1
  /\ last.v = made.v
  /\ \E j \in 2..Len(store) : \E K \in KeyLists :
       /\ store[j] = pick(TypesA, K) /\ ~Includes(K, made.n)
       /\ res[j] = Bool(FALSE) /\ res[1] = Bool(TRUE)

(***************************************************************************)
(* Properties of the transforms on allocated entities                       *)
(***************************************************************************)
Transforms == {"lens.set", "lens.modify", "iso.modify"}

\* The last call is a transform that returned an entity.
Transformed == last.op \in Transforms /\ last.ref # NoRef

\* No step changes an entity that is already allocated: after a transform
\* the input entity has the marker, the name, the variation and the payload
\* fields it had before the call.
C22_InputsUntouched ==
  [][\A a \in DOMAIN heap : a \in DOMAIN heap' /\ heap'[a] = heap[a]]_vars

\* The set of a lens and the modify of an iso return an entity that is not
\* the one they were given; so does the modify of a lens when the function
\* changes the value under the lens.
C22_NewEntityUnlessLensFixedPoint ==
  Transformed =>
    \/ last.ref # last.arg
    \/ /\ last.op = "lens.modify"
       /\ ReturnsItsArgument(last.y.s,
            composeLensGet(types, last.path, last.n, last.v, last.k,
                           heap[last.arg]))

\* C22: no transform mutates its input entity: after e2 = L.set(y)(e),
\* L.modify(f)(e) or iso.modify(f)(e), e is as it was before the call and
\* e2 is another entity than e.  The part about e is C22_InputsUntouched;
\* this is the part about e2.
C22_TransformsReturnNewEntities ==
  Transformed => last.ref # last.arg

\* A lens modify with a function that returns the value it was given.
C22_LensFixedPoint ==
  /\ Transformed
  /\ last.op = "lens.modify"
  /\ last.y = Str("x => x")

(***************************************************************************)
(* Properties of a bundle generated from a non-rectangular schema           *)
(***************************************************************************)
TableKeys(T, i) == SeqToSet(T[i].table)

NonRectangular(T) == \E i \in 1..Len(T) : TableKeys(T, i) # TableKeys(T, 1)

\* The variation keys that occur only in the table of a later name.
LaterOnly(T) == (UNION {TableKeys(T, i) : i \in 1..Len(T)}) \ TableKeys(T, 1)

\* The table of name n lacks the key v.
TableLacks(T, n, v) == \E i \in 1..Len(T) : T[i].name = n /\ v \notin TableKeys(T, i)

ScopedOfPaths == {"of[n][v](p)", "of[v][n](p)"}
ScopedIsPaths == {"is[n][v]", "is[v][n]"}

\* C23: from a non-rectangular schema the bundle is generated without an
\* error; of[n][v] and is[n][v] exist for every name n and every key v of
\* the first name's table, also when n's own table lacks v; a key that
\* occurs only in a later name's table has no constructor, and an entity
\* carrying it is rejected by every guard.
C23_FirstTableOnly ==
  NonRectangular(types) =>
    /\ ~IsThrow(store[1])
    /\ store[1].types = types
    /\ \A k \in LaterOnly(types), n \in Names, p \in Payloads :
         /\ IsThrow(OfCall(types, "of[n][v](p)", n, k, p))
         /\ IsThrow(OfCall(types, "of[v][n](p)", n, k, p))
         /\ IsThrow(OfCall(types, "of[v](n,p)", n, k, p))
    /\ (last.op = "of" /\ last.path \in ScopedOfPaths) =>
         res = Opaque(Str(last.n), Str(last.v), last.arg)
    /\ (/\ last.op = "is"
        /\ last.path \in ScopedIsPaths
        /\ last.arg.t # "null") =>
         /\ res \in {Bool(TRUE), Bool(FALSE)}
         /\ (made.op = "of" /\ count = 2 /\ last.n = made.n /\ last.v = made.v) =>
              res = Bool(TRUE)
    /\ (/\ last.op = "is"
        /\ Marked(last.arg)
        /\ \E k \in LaterOnly(types) :
             GetProp(last.arg, "__OPAQUE_VARIATION__") = Str(k)) =>
         res = Bool(FALSE)

\* An entity whose variation occurs only in a later name's table was given
\* to a guard.
C23_Witness ==
  /\ NonRectangular(types)
  /\ last.op = "is"
  /\ Marked(last.arg)
  /\ \E k \in LaterOnly(types) :
       GetProp(last.arg, "__OPAQUE_VARIATION__") = Str(k)
  /\ res = Bool(FALSE)

\* of[n][v] made an entity of a variation that the table of n lacks, and
\* is[n][v] accepted it.
C23_WitnessLacks ==
  /\ NonRectangular(types)
  /\ made.op = "of"
  /\ TableLacks(types, made.n, made.v)
  /\ last.op = "is"
  /\ last.path = "is[n][v]"
  /\ res = Bool(TRUE)

(***************************************************************************)
(* Properties of the five guard paths taken together                        *)
(***************************************************************************)
\* A key of the schema is both a name and a variation.
KeyCollision(T) == SeqToSet(names(T)) \cap SeqToSet(variations(T)) # {}

\* The guard of a path holds for x.
Holds(path, n, v, x) == IsCall(types, path, n, v, x) = Bool(TRUE)

\* a && b on guard outcomes.
Both(a, b) == IF a = Bool(TRUE) THEN b ELSE a

\* The pairs (n, v) whose guard is[n][v] holds for x.
PairsOf(x) ==
  {pair \in Names \X Variations : Holds("is[n][v]", pair[1], pair[2], x)}

GuardPathsConsistent(x) ==
  /\ \A n \in Names, v \in Variations :
       /\ IsCall(types, "is[n][v]", n, v, x) = IsCall(types, "is[v][n]", n, v, x)
       /\ IsCall(types, "is[n][v]", n, v, x) =
            Both(IsCall(types, "is[n]", n, "", x),
                 IsCall(types, "is[v]", "", v, x))
  /\ \A n \in Names :
       Holds("is[n]", n, "", x) <=>
         \E v \in Variations : Holds("is[n][v]", n, v, x)
  /\ \A v \in Variations :
       Holds("is[v]", "", v, x) <=>
         \E n \in Names : Holds("is[v][n]", n, v, x)
  /\ Holds("is", "", "", x) <=> \E n \in Names : Holds("is[n]", n, "", x)
  /\ Holds("is", "", "", x) <=> \E v \in Variations : Holds("is[v]", "", v, x)
  /\ Cardinality(PairsOf(x)) <= 1

\* C24: the five guard paths agree on every object x a guard is given:
\* is[n][v](x) = is[v][n](x) = (is[n](x) and is[v](x)); is[n](x) iff
\* is[n][v](x) for some variation v; is[v](x) iff is[v][n](x) for some name
\* n; is(x) iff is[n](x) for some name n iff is[v](x) for some variation v;
\* and is[n][v](x) holds for at most one pair (n, v).
C24_GuardPathsConsistent ==
  (last.op = "is" /\ last.arg.t = "object") => GuardPathsConsistent(last.arg)

\* A guard was given an entity of the bundle whose schema has a key that is
\* both a name and a variation, and the guard paths disagree on it.
C24_FailingCase ==
  /\ last.op = "is"
  /\ KeyCollision(types)
  /\ Marked(last.arg)
  /\ KnownName(last.arg)
  /\ KnownVariation(last.arg)
  /\ ~GuardPathsConsistent(last.arg)

(***************************************************************************)
(* Properties of the scoped folds on entities out of their scope            *)
(***************************************************************************)
\* The last call is a fold of the given path on e = of(n2, v2, p).
FoldOfEntity(path) ==
  count = 2 /\ last.op = "fold" /\ last.path = path /\ FirstIsEntity

\* C25: a scoped fold does not enforce its scope: for e = of(n2, v2, p),
\* bundle[v].fold runs the handler of e's name n2, as the global fold does,
\* whatever v is, and bundle[n].fold runs the handler of e's variation v2,
\* whatever n is; no scoped fold rejects e.
C25_ScopedFoldsIgnoreScope ==
  /\ FoldOfEntity("bundle[v].fold") =>
       /\ res = Handled(made.n, first)
       /\ res \in FoldCall(types, "fold", "", "", first)
  /\ FoldOfEntity("bundle[n].fold") => res = Handled(made.v, first)

\* A scoped fold of a bundle without a key that is both a name and a
\* variation has run a handler on an entity out of its scope.
C25_Witness ==
  /\ ~KeyCollision(types)
  /\ \/ FoldOfEntity("bundle[v].fold") /\ last.v # made.v
     \/ FoldOfEntity("bundle[n].fold") /\ last.n # made.n
  /\ res \in {Handled(made.n, first), Handled(made.v, first)}

\* bundle[n].fold, n being a variation as well, has not run the handler of
\* the entity's variation.
C25_FailingCase ==
  /\ KeyCollision(types)
  /\ FoldOfEntity("bundle[n].fold")
  /\ res # Handled(made.v, first)

(***************************************************************************)
(* Properties of the global optics on a payload with tag fields of its own  *)
(***************************************************************************)
\* The payload of the first value, an entity, has a field named k.
PayloadHas(k) == FirstIsEntity /\ made.arg.t = "object" /\ k \in DOMAIN made.arg.o

\* The tag fields of the payload, with the entity field each one shadows.
TagFields == {<<"_tag", "__OPAQUE_KEY__">>, <<"_variation", "__OPAQUE_VARIATION__">>}

VariationIso(op) == last.op = op /\ last.path = "bundle[v].iso"

\* C27: bundle[v].iso pins the variation to v: get(e) has _variation = v for
\* an entity e of any variation; reverseGet(y) returns an entity of
\* variation v whatever y._variation is; reverseGet(get(e)) = e only when
\* e's variation is v, and get(reverseGet(y)) = y only when y._variation is
\* v.
C27_VariationIsoPinsVariation ==
  /\ (count = 2 /\ VariationIso("iso.get") /\ FirstIsEntity)
       => res.o["_variation"] = Str(last.v)
  /\ (VariationIso("iso.reverseGet") /\ last.arg.t = "object")
       => Marked(res) /\ res.o["__OPAQUE_VARIATION__"] = Str(last.v)
  /\ (/\ count = 3 /\ VariationIso("iso.reverseGet") /\ FirstIsEntity
      /\ last.arg = bundleMemberIsoGet(types, last.v, first)
      /\ res = first)
       => made.v = last.v
  /\ (/\ count = 3 /\ VariationIso("iso.get") /\ made.op = "input"
      /\ first.t = "object"
      /\ last.arg = bundleMemberIsoReverseGet(types, last.v, first)
      /\ res = first)
       => GetProp(first, "_variation") = Str(last.v)

\* The payload of the entity has a _variation field of its own, and the get
\* of bundle[v].iso reports it instead of v.
C27_FailingCase ==
  /\ count = 2
  /\ VariationIso("iso.get")
  /\ PayloadHas("_variation")
  /\ res.o["_variation"] # Str(last.v)

(***************************************************************************)
(* Properties of the scoped optics on entities out of their scope           *)
(***************************************************************************)
ScopedOptics ==
  {"bundle[n][v].iso", "bundle[v][n].iso",
   "bundle[n][v].lensFromProp", "bundle[v][n].lensFromProp"}

\* The last call is a transform, through the optics of bundle[n][v] or
\* bundle[v][n], of the entity e = of(n2, v2, p).
ScopedTransform(op) ==
  /\ count = 2
  /\ last.op = op
  /\ last.path \in ScopedOptics
  /\ FirstIsEntity
  /\ last.arg = 1

\* C28: the optics of bundle[n][v] and bundle[v][n] do not check the scope
\* of their input: their get is the payload of an entity of any name and
\* variation, so iso.modify(f)(e) is the entity (n, v, f(p)) and
\* lensFromProp(k).set(y)(e) the entity (n, v, {...p, k: y}) for e tagged
\* (n2, v2), also when (n2, v2) is not (n, v).
C28_ScopedOpticsRetag ==
  /\ ScopedTransform("iso.modify") =>
       res = Entity(last.n, last.v, Apply(last.y.s, made.arg))
  /\ ScopedTransform("lens.set") =>
       res = Entity(last.n, last.v, fromPropSet(last.k, last.y, made.arg))

\* In a bundle without a key that is both a name and a variation, a scoped
\* transform has returned an entity of another name and another variation
\* than those of the entity it was given.
C28_Witness ==
  /\ ~KeyCollision(types)
  /\ \/ ScopedTransform("iso.modify")
     \/ ScopedTransform("lens.set")
  /\ made.n # last.n
  /\ made.v # last.v
  /\ Marked(res)
  /\ res.o["__OPAQUE_KEY__"] = Str(last.n)
  /\ res.o["__OPAQUE_VARIATION__"] = Str(last.v)

\* The optics of bundle[n][v], n being a variation as well, has not returned
\* an entity tagged (n, v).
C28_FailingCase ==
  /\ KeyCollision(types)
  /\ \/ ScopedTransform("iso.modify")
     \/ ScopedTransform("lens.set")
  /\ last.path \in {"bundle[n][v].iso", "bundle[n][v].lensFromProp"}
  /\ IsThrow(res)

(***************************************************************************)
(* Properties of the arity branch of of[n]                                  *)
(***************************************************************************)
\* The first value is an entity of variation default made by a constructor.
FirstIsDefault ==
  /\ made.op = "of"
  /\ Marked(first)
  /\ first.o["__OPAQUE_VARIATION__"] = Str("default")

\* C29: in a bundle whose variations do not contain default, of[n](p) is
\* the entity (n, default, p) and of[n]() the entity (n, default,
\* undefined); the guards is, is[n] and every is[v] of the bundle reject
\* such an entity.
C29_ArityBranch ==
  "default" \notin Variations =>
    /\ (count = 1 /\ last.op = "of" /\ last.path = "of[n](p)")
         => res = Entity(last.n, "default", last.arg)
    /\ (count = 1 /\ last.op = "of" /\ last.path = "of[n]()")
         => res = Entity(last.n, "default", Undefined)
    /\ (/\ count = 2 /\ last.op = "is" /\ FirstIsDefault
        /\ last.path \in {"is", "is[n]", "is[v]"})
         => res = Bool(FALSE)

\* of[n](p) made an entity of variation default in a bundle without that
\* variation, and is[n] rejected it.
C29_Witness ==
  /\ "default" \notin Variations
  /\ ~KeyCollision(types)
  /\ FirstIsDefault
  /\ first = Entity(made.n, "default", made.arg)
  /\ made.arg # Undefined
  /\ count = 2 /\ last.op = "is" /\ last.path = "is[n]" /\ last.n = made.n
  /\ res = Bool(FALSE)

\* of[n](p), n being a variation as well, has not made the entity
\* (n, default, p).
C29_FailingCase ==
  /\ "default" \notin Variations
  /\ KeyCollision(types)
  /\ count = 1 /\ last.op = "of" /\ last.path = "of[n](p)"
  /\ res # Entity(last.n, "default", last.arg)

(***************************************************************************)
(* Properties of a key that is both a name and a variation                  *)
(***************************************************************************)
CollisionKey(k) == IsName(types, k) /\ IsVariation(types, k)

\* What the members of[k], is[k] and bundle[k] are for a key k that is both
\* a name and a variation: the variation-scoped ones.  of[k](x, p) is the
\* entity named x of variation k; is[k] holds for an entity of the bundle
\* iff its variation is k; bundle[k].fold dispatches on the entity's name.
VariationScopedMembers ==
  /\ (/\ count = 1 /\ last.op = "of" /\ last.path = "of[n](v,p)"
      /\ CollisionKey(last.n))
       => res = Opaque(Str(last.v), Str(last.n), last.arg)
  /\ (/\ last.op = "is" /\ last.path = "is[n]" /\ CollisionKey(last.n)
      /\ Marked(last.arg) /\ KnownName(last.arg))
       => res = Bool(last.arg.o["__OPAQUE_VARIATION__"] = Str(last.n))
  /\ (FoldOfEntity("bundle[n].fold") /\ CollisionKey(last.n))
       => res = CallHandler(FoldFuncs(types, last.path), made.n, first)

\* C30 as stated: for a key k that is both a name and a variation, of[k],
\* is[k] and bundle[k] are the variation-scoped members, and of[k](v, p) is
\* not equal to of(k, v, p).
C30_VariationMembersOverwrite ==
  /\ VariationScopedMembers
  /\ (/\ count = 1 /\ last.op = "of" /\ last.path = "of[n](v,p)"
      /\ CollisionKey(last.n))
       => res # Entity(last.n, last.v, last.arg)

\* C30, amended: for a key k that is both a name and a variation, of[k],
\* is[k] and bundle[k] are the variation-scoped members, and of[k](v, p),
\* the entity named v of variation k, is equal to of(k, v, p) only when v is
\* k itself.
C30_OverwriteExceptSameKey ==
  /\ VariationScopedMembers
  /\ (/\ count = 1 /\ last.op = "of" /\ last.path = "of[n](v,p)"
      /\ CollisionKey(last.n))
       => (res = Entity(last.n, last.v, last.arg) <=> last.v = last.n)

\* of[k](v, p) was called with a key k that is both a name and a variation
\* and another variation v, and has returned the entity named v.
C30_Witness ==
  /\ count = 1 /\ last.op = "of" /\ last.path = "of[n](v,p)"
  /\ CollisionKey(last.n)
  /\ last.v # last.n
  /\ res = Opaque(Str(last.v), Str(last.n), last.arg)
  /\ res # Entity(last.n, last.v, last.arg)

====
